---- MODULE Spec2Model ----
(***************************************************************************)
(* A model of the CSV conversion scripts src/2xlsx.js and src/2xlsx2.js:   *)
(* encoding selection and decode/repair (detectFileEncoding,               *)
(* readAndDecodeCSV), field normalisation and record filtering (mapValues, *)
(* on_record, parseCSVContent), and the batch drivers (processDirectory,   *)
(* convertAllCSVFiles).                                                    *)
(*                                                                         *)
(* Strings are sequences of one-character strings, byte buffers are        *)
(* sequences of integers 0..255, decoded texts are sequences of UTF-16     *)
(* code units (integers).                                                  *)
(***************************************************************************)
EXTENDS Integers, Sequences, FiniteSets, TLC

VARIABLES
    \* ---- one file through detectFileEncoding / readAndDecodeCSV (2xlsx.js)
    buffer,       \* the bytes fs.readFileSync returns
    result,       \* what jschardet.detect(buffer) returns
    codecFails,   \* canonical encoding names on which iconv throws
    pc,           \* position in convertCsvToExcel
    encoding,     \* const encoding = detectFileEncoding(inputCsvPath)
    content,      \* what readAndDecodeCSV returned (or that it threw)
    \* ---- one field value through a field normaliser, twice
    normalizer,   \* "mapValues" (2xlsx.js) or "on_record" (2xlsx2.js)
    fieldValue,   \* the cell the parser hands over
    once,         \* the normaliser's result
    twice,        \* the normaliser's result on `once`
    \* ---- the parsed rows of one file through a converter, to the sink
    variant,      \* "xlsx" (2xlsx.js), "filtered" (2xlsx2.js), "json"
    rows,         \* the rows the parser produces, in input order
    idx,          \* the next row
    records,      \* results / records: what the per-row callback kept
    sink,         \* what json_to_sheet / JSON.stringify was given
    stage,        \* "parsing", "written", "failed"
    \* ---- a directory through processDirectory / convertAllCSVFiles
    mode,         \* "sequential" (2xlsx.js) or "concurrent" (2xlsx2.js)
    listing,      \* what readdir returns
    outcome,      \* what happens to each CSV file when it is converted
    csvFiles,     \* the listing after the '.csv' filter
    bpc,          \* position in the batch driver
    loopIdx,      \* the for loop of processDirectory
    tally,        \* the results object / the counts of the summary
    tasks,        \* the promises of convertAllCSVFiles, by file
    attempts,     \* how often each file's conversion was started
    writes,       \* the output files written, with the file they are for
    errorLog      \* the files logged as failed by the converter's catch

encVars == <<buffer, result, codecFails, pc, encoding, content>>
fieldVars == <<normalizer, fieldValue, once, twice>>
recVars == <<variant, rows, idx, records, sink, stage>>
batchVars == <<mode, listing, outcome, csvFiles, bpc, loopIdx, tally, tasks,
               attempts, writes, errorLog>>
vars == <<encVars, fieldVars, recVars, batchVars>>

----------------------------------------------------------------------------
(* The parts of the state a specification does not use stay as they are.   *)

IdleEnc ==
    /\ buffer = <<>> /\ result = [kind |-> "none", encoding |-> <<>>, confidence |-> 0]
    /\ codecFails = {} /\ pc = "idle" /\ encoding = <<>>
    /\ content = [ok |-> FALSE, text |-> <<>>, by |-> <<>>]

IdleField ==
    /\ normalizer = "none"
    /\ fieldValue = [type |-> "null", v |-> <<>>]
    /\ once = [type |-> "pending", v |-> <<>>]
    /\ twice = [type |-> "pending", v |-> <<>>]

IdleRec ==
    /\ variant = "none" /\ rows = <<>> /\ idx = 1 /\ records = <<>>
    /\ sink = <<>> /\ stage = "idle"

NoTally == [success |-> 0, failed |-> 0, total |-> 0, failedFiles |-> <<>>]

IdleBatch ==
    /\ mode = "none" /\ listing = <<>> /\ outcome = <<>> /\ csvFiles = <<>>
    /\ bpc = "idle" /\ loopIdx = 1 /\ tally = NoTally /\ tasks = <<>>
    /\ attempts = <<>> /\ writes = <<>> /\ errorLog = <<>>

----------------------------------------------------------------------------
(* Strings *)

Range(s) == {s[i] : i \in 1..Len(s)}

\* String.prototype.toLowerCase on the letters that occur in labels and names.
LowerChar(c) ==
    CASE c = "A" -> "a" [] c = "B" -> "b" [] c = "C" -> "c" [] c = "E" -> "e"
      [] c = "F" -> "f" [] c = "G" -> "g" [] c = "H" -> "h" [] c = "I" -> "i"
      [] c = "J" -> "j" [] c = "L" -> "l" [] c = "O" -> "o" [] c = "P" -> "p"
      [] c = "S" -> "s" [] c = "T" -> "t" [] c = "U" -> "u" [] c = "V" -> "v"
      [] c = "W" -> "w" [] c = "Y" -> "y"
      [] OTHER -> c

toLowerCase(s) == [i \in 1..Len(s) |-> LowerChar(s[i])]

\* String.prototype.includes(sub)
includes(s, sub) ==
    \E i \in 1..(Len(s) - Len(sub) + 1) : SubSeq(s, i, i + Len(sub) - 1) = sub

\* String.prototype.endsWith(suffix)
endsWith(s, suffix) ==
    /\ Len(s) >= Len(suffix)
    /\ SubSeq(s, Len(s) - Len(suffix) + 1, Len(s)) = suffix

\* String.prototype.replace(c, ''): the first occurrence of the character only.
ReplaceFirst(s, c) ==
    IF c \notin Range(s) THEN s
    ELSE LET i == CHOOSE k \in 1..Len(s) :
                      s[k] = c /\ \A j \in 1..(k - 1) : s[j] # c
         IN  SubSeq(s, 1, i - 1) \o SubSeq(s, i + 1, Len(s))

----------------------------------------------------------------------------
(* Encoding names *)

utf8     == <<"u", "t", "f", "8">>
utf16le  == <<"u", "t", "f", "1", "6", "l", "e">>
utf16be  == <<"u", "t", "f", "1", "6", "b", "e">>
gbk      == <<"g", "b", "k">>
big5     == <<"b", "i", "g", "5">>
shiftjis == <<"s", "h", "i", "f", "t", "j", "i", "s">>
\* 'shift-jis', as the encoding lists of the code write it
shift_jis == <<"s", "h", "i", "f", "t", "-", "j", "i", "s">>
cp1252   == <<"c", "p", "1", "2", "5", "2">>
latin1   == <<"l", "a", "t", "i", "n", "1">>

AlphaNum ==
    {"a", "b", "c", "d", "e", "f", "g", "h", "i", "j", "k", "l", "m", "n",
     "o", "p", "q", "r", "s", "t", "u", "v", "w", "x", "y", "z",
     "0", "1", "2", "3", "4", "5", "6", "7", "8", "9"}

IsAlphaNum(c) == c \in AlphaNum

\* iconv-lite looks a codec up by the lower-cased name without punctuation.
Canonical(enc) == SelectSeq(toLowerCase(enc), IsAlphaNum)

----------------------------------------------------------------------------
(* The codec collaborator (iconv-lite), on the byte alphabet of the model.  *)
(* A text is a sequence of UTF-16 code units.  A two-byte character of a    *)
(* double-byte code page is one unit, written 65536 * page + 256 * lead +   *)
(* trail so that distinct byte pairs are distinct characters; every pair in *)
(* the page's lead and trail ranges is taken as assigned.  The lead bytes   *)
(* of shift-jis are those of its code page 932, which has no rows 85, 86,   *)
(* EB, EC and EF.                                                           *)

\* U+FFFD, what a decoder substitutes for bytes it cannot decode, and
\* U+FEFF, the byte order mark.
ReplacementChar == 255 * 256 + 253
BomChar == 254 * 256 + 255

\* iconv-lite's StripBOM wrapper around the Unicode decoders.
StripBOM(text) ==
    IF Len(text) > 0 /\ text[1] = BomChar THEN Tail(text) ELSE text

IsContinuation(x) == x \in 128..191

\* UTF-8 decoding with one U+FFFD per maximal ill-formed subpart.  Leads of
\* four-byte sequences (240..244) are not in the byte alphabet.
RECURSIVE Utf8Dec(_, _)
Utf8Dec(b, i) ==
    IF i > Len(b) THEN <<>>
    ELSE LET x == b[i]
             has1 == i + 1 <= Len(b)
             has2 == i + 2 <= Len(b)
         IN  IF x < 128 THEN <<x>> \o Utf8Dec(b, i + 1)
             ELSE IF x \in 194..223
             THEN IF has1 /\ IsContinuation(b[i + 1])
                  THEN <<(x - 192) * 64 + (b[i + 1] - 128)>> \o Utf8Dec(b, i + 2)
                  ELSE <<ReplacementChar>> \o Utf8Dec(b, i + 1)
             ELSE IF x \in 224..239
             THEN LET lo == IF x = 224 THEN 160 ELSE 128
                      hi == IF x = 237 THEN 159 ELSE 191
                  IN  IF has1 /\ b[i + 1] \in lo..hi
                      THEN IF has2 /\ IsContinuation(b[i + 2])
                           THEN <<(x - 224) * 4096 + (b[i + 1] - 128) * 64
                                   + (b[i + 2] - 128)>> \o Utf8Dec(b, i + 3)
                           ELSE <<ReplacementChar>> \o Utf8Dec(b, i + 2)
                      ELSE <<ReplacementChar>> \o Utf8Dec(b, i + 1)
             ELSE <<ReplacementChar>> \o Utf8Dec(b, i + 1)

Utf8EncChar(c) ==
    IF c < 128 THEN <<c>>
    ELSE IF c < 2048 THEN <<192 + (c \div 64), 128 + (c % 64)>>
    ELSE <<224 + (c \div 4096), 128 + ((c \div 64) % 64), 128 + (c % 64)>>

\* UTF-16: two bytes a unit, a trailing odd byte is dropped.
Utf16Dec(b, littleEndian) ==
    [k \in 1..(Len(b) \div 2) |->
        IF littleEndian THEN b[2 * k - 1] + 256 * b[2 * k]
                        ELSE 256 * b[2 * k - 1] + b[2 * k]]

\* Single-byte code pages: the byte is the code unit (the alphabet has no
\* byte of 128..159, where cp1252 differs from latin1).
SbcsDec(b) == b

\* The double-byte pages: 1 gbk, 2 big5, 3 shift-jis.
DbcsSingle(k) ==
    CASE k = 1 -> 0..127
      [] k = 2 -> 0..127
      [] k = 3 -> (0..128) \cup (161..223)

DbcsLead(k) ==
    CASE k = 1 -> 129..254
      [] k = 2 -> 129..254
      [] k = 3 -> (129..132) \cup (135..159) \cup (224..234) \cup (237..238)
                      \cup (240..252)

DbcsTrail(k) ==
    CASE k = 1 -> (64..126) \cup (128..254)
      [] k = 2 -> (64..126) \cup (161..254)
      [] k = 3 -> (64..126) \cup (128..252)

\* Shift-JIS bytes A1..DF are the half-width katakana U+FF61..U+FF9F.
DbcsSingleChar(k, x) == IF k = 3 /\ x >= 161 THEN 65377 + (x - 161) ELSE x

DbcsChar(k, lead, trail) == 65536 * k + 256 * lead + trail

\* An undecodable byte becomes U+FFFD and decoding resumes at the next byte.
RECURSIVE DbcsDec(_, _, _)
DbcsDec(k, b, i) ==
    IF i > Len(b) THEN <<>>
    ELSE LET x == b[i]
         IN  IF x \in DbcsSingle(k)
             THEN <<DbcsSingleChar(k, x)>> \o DbcsDec(k, b, i + 1)
             ELSE IF x \in DbcsLead(k) /\ i < Len(b) /\ b[i + 1] \in DbcsTrail(k)
             THEN <<DbcsChar(k, x, b[i + 1])>> \o DbcsDec(k, b, i + 2)
             ELSE <<ReplacementChar>> \o DbcsDec(k, b, i + 1)

\* A character the page does not have is encoded as '?'.
DbcsEncChar(k, c) ==
    IF c >= 65536
    THEN IF c \div 65536 = k THEN <<(c % 65536) \div 256, c % 256>> ELSE <<63>>
    ELSE IF c \in DbcsSingle(k) /\ ~(k = 3 /\ c >= 161) THEN <<c>>
    ELSE IF k = 3 /\ c \in 65377..65439 THEN <<161 + (c - 65377)>>
    ELSE <<63>>

RECURSIVE Flatten(_)
Flatten(ss) == IF ss = <<>> THEN <<>> ELSE Head(ss) \o Flatten(Tail(ss))

DbcsPage(name) ==
    CASE name = gbk -> 1 [] name = big5 -> 2 [] name = shiftjis -> 3 [] OTHER -> 0

Supported == {utf8, utf16le, utf16be, gbk, big5, shiftjis, cp1252, latin1}

\* iconv.decode(buffer, enc): throws on a name it has no codec for (and on
\* the names of codecFails), never on the bytes.
iconvDecode(buf, enc) ==
    LET name == Canonical(enc)
    IN  IF name \notin Supported \/ name \in codecFails
        THEN [ok |-> FALSE, text |-> <<>>]
        ELSE [ok |-> TRUE,
              text |-> CASE name = utf8 -> StripBOM(Utf8Dec(buf, 1))
                         [] name = utf16le -> StripBOM(Utf16Dec(buf, TRUE))
                         [] name = utf16be -> StripBOM(Utf16Dec(buf, FALSE))
                         [] name \in {cp1252, latin1} -> SbcsDec(buf)
                         [] OTHER -> DbcsDec(DbcsPage(name), buf, 1)]

\* iconv.encode(text, enc) for the encodings the round trip uses.
iconvEncode(text, enc) ==
    LET name == Canonical(enc)
    IN  IF name \notin Supported \/ name \in codecFails
        THEN [ok |-> FALSE, bytes |-> <<>>]
        ELSE [ok |-> TRUE,
              bytes |-> IF name = utf8
                        THEN Flatten([i \in 1..Len(text) |-> Utf8EncChar(text[i])])
                        ELSE Flatten([i \in 1..Len(text) |->
                                         DbcsEncChar(DbcsPage(name), text[i])])]

----------------------------------------------------------------------------
(* detectFileEncoding (src/2xlsx.js) *)

\* result.confidence < 0.85, with confidences in hundredths.
ConfidenceThreshold == 85

NoResult == [kind |-> "none", encoding |-> <<>>, confidence |-> 0]
DetectThrows == [kind |-> "throws", encoding |-> <<>>, confidence |-> 0]

\* The value of the BOM block when none of its returns is taken.
NoBom == <<>>

\* The BOM block of the low-confidence branch.
bomCheck(buf) ==
    IF Len(buf) >= 3
    THEN IF buf[1] = 239 /\ buf[2] = 187 /\ buf[3] = 191 THEN utf8
         ELSE IF buf[1] = 254 /\ buf[2] = 255 THEN utf16be
         ELSE IF buf[1] = 255 /\ buf[2] = 254 THEN utf16le
         ELSE NoBom
    ELSE NoBom

testEncodings == <<utf8, gbk, big5, shift_jis>>

\* buffer.equals(iconv.encode(iconv.decode(buffer, enc), enc)); a throw of
\* either call is caught by the loop's catch.
roundTrips(buf, enc) ==
    LET decoded == iconvDecode(buf, enc)
        reEncoded == iconvEncode(decoded.text, enc)
    IN  decoded.ok /\ reEncoded.ok /\ reEncoded.bytes = buf

\* The loop with its try/catch around the loop instead of inside it: the first
\* codec error ends the trial with 'utf8'.
RECURSIVE tryTestEncodingsNoCatch(_, _)
tryTestEncodingsNoCatch(buf, i) ==
    IF i > Len(testEncodings) THEN utf8
    ELSE IF ~iconvDecode(buf, testEncodings[i]).ok THEN utf8
    ELSE IF roundTrips(buf, testEncodings[i]) THEN testEncodings[i]
    ELSE tryTestEncodingsNoCatch(buf, i + 1)

\* for (const enc of testEncodings) ... return enc; after the loop, 'utf8'.
RECURSIVE tryTestEncodings(_, _)
tryTestEncodings(buf, i) ==
    IF i > Len(testEncodings) THEN utf8
    ELSE IF roundTrips(buf, testEncodings[i]) THEN testEncodings[i]
    ELSE tryTestEncodings(buf, i + 1)

encodingMap(e) ==
    CASE e = <<"g", "b", "2", "3", "1", "2">> -> gbk
      [] e = <<"g", "b", "1", "8", "0", "3", "0">> -> gbk
      [] e = <<"w", "i", "n", "d", "o", "w", "s", "-", "1", "2", "5", "2">> -> cp1252
      [] e = <<"i", "s", "o", "-", "8", "8", "5", "9", "-", "1">> -> latin1
      [] e = <<"a", "s", "c", "i", "i">> -> utf8
      [] e = <<"u", "t", "f", "-", "1", "6", "l", "e">> -> utf16le
      [] e = <<"u", "t", "f", "-", "1", "6", "b", "e">> -> utf16be
      [] OTHER -> e

\* The label normalisation of the confident branch.
normalizeEncoding(label) ==
    LET mapped == encodingMap(toLowerCase(label))
    IN  IF includes(mapped, <<"g", "b">>) \/ includes(mapped, gbk) THEN gbk
        ELSE IF includes(mapped, <<"u", "t", "f">>)
             THEN toLowerCase(ReplaceFirst(mapped, "-"))
        ELSE mapped

lowConfidence(res) == res.kind = "none" \/ res.confidence < ConfidenceThreshold

detectFileEncoding(buf, res) ==
    IF res.kind = "throws" THEN utf8
    ELSE IF lowConfidence(res)
    THEN IF bomCheck(buf) # NoBom THEN bomCheck(buf)
         ELSE tryTestEncodings(buf, 1)
    ELSE normalizeEncoding(res.encoding)

----------------------------------------------------------------------------
(* readAndDecodeCSV (src/2xlsx.js) *)

\* /[\uFFFD\u0000-\u0008\u000B-\u000C\u000E-\u001F]/
IsInvalidChar(c) ==
    c = ReplacementChar \/ c \in 0..8 \/ c \in 11..12 \/ c \in 14..31

\* (content.match(...) || []).length
CountInvalid(text) == Cardinality({i \in 1..Len(text) : IsInvalidChar(text[i])})

fallbackEncodings == <<utf8, gbk, big5, shift_jis, cp1252>>
alternativeEncodings == <<gbk, big5, shift_jis>>

Threw == [ok |-> FALSE, text |-> <<>>, by |-> <<>>]
Returned(text, enc) == [ok |-> TRUE, text |-> text, by |-> enc]

\* The catch block with a fallback's failure left uncaught: it gives up at
\* the first fallback that throws.
tryFallbacksFirstThrowEnds(buf, enc, i) ==
    LET rest == SelectSeq(fallbackEncodings, LAMBDA e : e # enc)
    IN  IF rest # <<>> /\ iconvDecode(buf, rest[1]).ok
        THEN Returned(iconvDecode(buf, rest[1]).text, rest[1])
        ELSE Threw

\* The catch block of the first decode: the first fallback that decodes.
RECURSIVE tryFallbacks(_, _, _)
tryFallbacks(buf, enc, i) ==
    IF i > Len(fallbackEncodings) THEN Threw
    ELSE LET fallbackEncoding == fallbackEncodings[i]
             decoded == iconvDecode(buf, fallbackEncoding)
         IN  IF fallbackEncoding = enc THEN tryFallbacks(buf, enc, i + 1)
             ELSE IF decoded.ok THEN Returned(decoded.text, fallbackEncoding)
             ELSE tryFallbacks(buf, enc, i + 1)

\* The guard with >= for >: a text at exactly one bad character in ten is
\* taken as garbled too.
looksGarbledAtTenth(text) ==
    CountInvalid(text) > 0 /\ 10 * CountInvalid(text) >= Len(text)

\* invalidChars && invalidChars.length > content.length * 0.1
looksGarbled(text) == 10 * CountInvalid(text) > Len(text)

\* !altInvalidChars || altInvalidChars.length < invalidChars.length
isBetter(altText, text) == CountInvalid(altText) < CountInvalid(text)

\* The loop over alternativeEncodings; falls out to `return content`.
RECURSIVE tryAlternatives(_, _, _, _)
tryAlternatives(buf, text, enc, i) ==
    IF i > Len(alternativeEncodings) THEN Returned(text, enc)
    ELSE LET altEncoding == alternativeEncodings[i]
             alt == iconvDecode(buf, altEncoding)
         IN  IF alt.ok /\ isBetter(alt.text, text)
             THEN Returned(alt.text, altEncoding)
             ELSE tryAlternatives(buf, text, enc, i + 1)

\* The encodings handed to iconv.decode by the catch block, in call order.
RECURSIVE fallbackAttempts(_, _, _)
fallbackAttempts(buf, enc, i) ==
    IF i > Len(fallbackEncodings) THEN <<>>
    ELSE LET fallbackEncoding == fallbackEncodings[i]
         IN  IF fallbackEncoding = enc THEN fallbackAttempts(buf, enc, i + 1)
             ELSE IF iconvDecode(buf, fallbackEncoding).ok
             THEN <<fallbackEncoding>>
             ELSE <<fallbackEncoding>> \o fallbackAttempts(buf, enc, i + 1)

\* The encodings handed to iconv.decode by the repair loop, in call order.
RECURSIVE alternativeAttempts(_, _, _)
alternativeAttempts(buf, text, i) ==
    IF i > Len(alternativeEncodings) THEN <<>>
    ELSE LET altEncoding == alternativeEncodings[i]
             alt == iconvDecode(buf, altEncoding)
         IN  IF alt.ok /\ isBetter(alt.text, text) THEN <<altEncoding>>
             ELSE <<altEncoding>> \o alternativeAttempts(buf, text, i + 1)

\* Every iconv.decode call of one readAndDecodeCSV call, in call order.
decodeAttempts(buf, enc) ==
    LET first == iconvDecode(buf, enc)
    IN  <<enc>> \o (IF ~first.ok THEN fallbackAttempts(buf, enc, 1)
                    ELSE IF looksGarbled(first.text)
                         THEN alternativeAttempts(buf, first.text, 1)
                    ELSE <<>>)

\* The text returned, and (by) the encoding whose decode produced it.
readAndDecodeCSV(buf, enc) ==
    LET first == iconvDecode(buf, enc)
    IN  IF ~first.ok THEN tryFallbacks(buf, enc, 1)
        ELSE IF looksGarbled(first.text)
             THEN tryAlternatives(buf, first.text, enc, 1)
        ELSE Returned(first.text, enc)

----------------------------------------------------------------------------
(* One file through convertCsvToExcel (src/2xlsx.js): detectFileEncoding,   *)
(* readAndDecodeCSV, the empty-content check, then the parse and the write. *)

\* Bounds of the inputs.
MaxCore == 2
PadLen == 9

Prefixes == {<<>>, <<239, 187, 191>>, <<239, 187>>, <<254, 255>>, <<255, 254>>}
CoreBytes == {1, 65, 176, 255}

Seqs(S, n) == UNION {[1..k -> S] : k \in 0..n}

\* What a file may end with: nothing, or a lone lead byte.
Tails == {<<>>, <<176>>}

\* A buffer: a BOM or nothing, a few bytes, a run of 'A', and the tail.
Buffers ==
    {p \o c \o [i \in 1..n |-> 65] \o t :
        p \in Prefixes, c \in Seqs(CoreBytes, MaxCore), n \in {0, PadLen},
        t \in Tails}

RawLabels ==
    { <<"U", "T", "F", "-", "8">>,
      <<"a", "s", "c", "i", "i">>,
      <<"G", "B", "2", "3", "1", "2">>,
      <<"B", "i", "g", "5">>,
      <<"S", "H", "I", "F", "T", "_", "J", "I", "S">>,
      <<"U", "T", "F", "-", "1", "6", "L", "E">>,
      <<"w", "i", "n", "d", "o", "w", "s", "-", "1", "2", "5", "2">>,
      <<"I", "S", "O", "-", "2", "0", "2", "2", "-", "J", "P">> }

Confidences == {ConfidenceThreshold - 1, ConfidenceThreshold}

Results ==
    {NoResult, DetectThrows}
        \cup {[kind |-> "ok", encoding |-> l, confidence |-> c] :
                 l \in RawLabels, c \in Confidences}

CodecFailSets ==
    { {}, {utf8}, {gbk, big5}, {utf8, gbk, big5, shiftjis, cp1252} }

\* String.prototype.trim's white space, among the code units of the model.
IsWhitespace(c) == c \in {9, 10, 11, 12, 13, 32, 160, BomChar}

\* csvContent.trim().length === 0
isBlank(text) == \A i \in 1..Len(text) : IsWhitespace(text[i])

InitEnc ==
    /\ buffer \in Buffers
    /\ result \in Results
    /\ codecFails \in CodecFailSets
    /\ pc = "detect"
    /\ encoding = <<>>
    /\ content = Threw
    /\ IdleField
    /\ IdleRec
    /\ IdleBatch

\* const encoding = detectFileEncoding(inputCsvPath)
DetectEncoding ==
    /\ pc = "detect"
    /\ encoding' = detectFileEncoding(buffer, result)
    /\ pc' = "decode"
    /\ UNCHANGED <<buffer, result, codecFails, content, fieldVars, recVars, batchVars>>

\* const csvContent = readAndDecodeCSV(inputCsvPath, encoding); a throw is
\* caught by convertCsvToExcel, which returns false.
ReadAndDecode ==
    /\ pc = "decode"
    /\ content' = readAndDecodeCSV(buffer, encoding)
    /\ pc' = IF content'.ok THEN "check" ELSE "failed"
    /\ UNCHANGED <<buffer, result, codecFails, encoding, fieldVars, recVars, batchVars>>

\* if (!csvContent || csvContent.trim().length === 0) throw ...
CheckContent ==
    /\ pc = "check"
    /\ pc' = IF isBlank(content.text) THEN "failed" ELSE "parse"
    /\ UNCHANGED <<buffer, result, codecFails, encoding, content, fieldVars, recVars, batchVars>>

\* The parse, the worksheet and XLSX.writeFile, any of which may throw; on
\* success the completion diagnostic, which prints `encoding`.
ParseAndWrite ==
    /\ pc = "parse"
    /\ \E done \in BOOLEAN : pc' = IF done THEN "converted" ELSE "failed"
    /\ UNCHANGED <<buffer, result, codecFails, encoding, content, fieldVars,
                   recVars, batchVars>>

NextEnc == DetectEncoding \/ ReadAndDecode \/ CheckContent \/ ParseAndWrite

SpecEnc == InitEnc /\ [][NextEnc]_vars

----------------------------------------------------------------------------
(* Claims about encoding selection *)

\* The three byte order marks: EF BB BF, FE FF, FF FE.
startsWith(buf, sig) == Len(buf) >= Len(sig) /\ SubSeq(buf, 1, Len(sig)) = sig

signatureOf(buf) ==
    IF startsWith(buf, <<239, 187, 191>>) THEN utf8
    ELSE IF startsWith(buf, <<254, 255>>) THEN utf16be
    ELSE IF startsWith(buf, <<255, 254>>) THEN utf16le
    ELSE NoBom

detected == pc # "detect" /\ result.kind # "throws"

\* C1: a confident detector result selects the normalised detector label even
\* when the buffer starts with a BOM; when the detector gives no result or a
\* confidence below the threshold, a buffer that carries a BOM is assigned
\* the BOM's encoding whatever label the detector reported.
C1_BomOutranksLowConfidence ==
    detected =>
        /\ ~lowConfidence(result) => encoding = normalizeEncoding(result.encoding)
        /\ lowConfidence(result) /\ signatureOf(buffer) # NoBom
              => encoding = signatureOf(buffer)

\* C2: the BOM check yields utf8 for a buffer starting EF BB BF, utf16be for
\* one of at least 2 bytes starting FE FF, utf16le for one starting FF FE,
\* and no match only for a buffer with no signature.
C2_SniffMatchesSignatures ==
    pc # "detect" => bomCheck(buffer) = signatureOf(buffer)

\* The trial list as the claim gives it.
C3_TrialList == <<utf8, gbk, big5, shift_jis>>

\* C3: with no confident guess and no BOM matched, the selected encoding is
\* the first of the trial list whose decode and re-encode give back the
\* buffer (a codec error does not validate), and utf8 when none does.
C3_FirstRoundTripWins ==
    detected /\ lowConfidence(result) /\ bomCheck(buffer) = NoBom =>
        \/ \E i \in 1..Len(C3_TrialList) :
              /\ encoding = C3_TrialList[i]
              /\ roundTrips(buffer, C3_TrialList[i])
              /\ \A j \in 1..(i - 1) : ~roundTrips(buffer, C3_TrialList[j])
        \/ /\ \A i \in 1..Len(C3_TrialList) : ~roundTrips(buffer, C3_TrialList[i])
           /\ encoding = utf8

\* C3 witness: utf8 does not round-trip, gbk and big5 throw, and shift-jis,
\* the last of the list, is selected.
C3_Witness ==
    /\ detected /\ lowConfidence(result) /\ bomCheck(buffer) = NoBom
    /\ gbk \in codecFails /\ utf8 \notin codecFails
    /\ ~roundTrips(buffer, utf8)
    /\ encoding = shift_jis

----------------------------------------------------------------------------
(* Claims about the bad-character repair of readAndDecodeCSV *)

\* readAndDecodeCSV returned a text and its first decode did not throw.
decodedFirst == pc \in {"check", "parse", "failed"} /\ content.ok
                    /\ iconvDecode(buffer, encoding).ok

\* The text decoded under the selected encoding.
initialText == iconvDecode(buffer, encoding).text

\* The re-decodes under the alternative list of the claim.
C4_Alternatives == {gbk, big5, shift_jis}
alternativeTexts ==
    {iconvDecode(buffer, a).text :
        a \in {e \in C4_Alternatives : iconvDecode(buffer, e).ok}}

\* bad characters over length, compared without division
ratioAtLeastTenth(text) == Len(text) > 0 /\ 10 * CountInvalid(text) >= Len(text)
ratioAboveTenth(text) == 10 * CountInvalid(text) > Len(text)
lowerRatio(a, b) ==
    IF Len(a) = 0 THEN CountInvalid(b) > 0
    ELSE CountInvalid(a) * Len(b) < CountInvalid(b) * Len(a)

\* C4 as stated: an initial text with bad-character ratio >= 0.10 is not
\* returned when some alternative re-decode has a strictly lower ratio, and
\* is returned unchanged when none has.
C4_RepairAtTenth ==
    decodedFirst /\ ratioAtLeastTenth(initialText) =>
        IF \E t \in alternativeTexts : lowerRatio(t, initialText)
        THEN content.text # initialText
        ELSE content.text = initialText

\* C4 amended: an initial text whose bad characters number more than 0.10 of
\* its length is not returned when some alternative re-decode has strictly
\* fewer bad characters; otherwise the initial text is returned unchanged.
C4_RepairAboveTenth ==
    decodedFirst =>
        IF /\ ratioAboveTenth(initialText)
           /\ \E t \in alternativeTexts : CountInvalid(t) < CountInvalid(initialText)
        THEN content.text # initialText
        ELSE content.text = initialText

\* C4 witness: the repair replaced a garbled initial text.
C4_Witness ==
    /\ decodedFirst
    /\ ratioAboveTenth(initialText)
    /\ content.text # initialText
    /\ CountInvalid(content.text) < CountInvalid(initialText)

----------------------------------------------------------------------------
(* Claims about the decode-failure fallback of readAndDecodeCSV *)

\* readAndDecodeCSV has run and its first decode threw.
firstDecodeThrew == pc # "detect" /\ pc # "decode"
                        /\ ~iconvDecode(buffer, encoding).ok

\* The fallback list as the claim gives it.
C11_FallbackList == <<utf8, gbk, big5, shift_jis, cp1252>>

C11_Decodes(i) == iconvDecode(buffer, C11_FallbackList[i]).ok

C11_Tried == decodeAttempts(buffer, encoding)

C12_LowestScoreKept ==
    decodedFirst /\ ratioAboveTenth(initialText) =>
        \A t \in alternativeTexts : ~(CountInvalid(t) < CountInvalid(content.text))

----------------------------------------------------------------------------
(* Claims about the encoding a conversion reports *)

\* C13: the encoding that convertCsvToExcel prints in its completion
\* diagnostic is the encoding under which the text handed to the parser was
\* decoded, on every path of readAndDecodeCSV.
C13_ReportedEncodingProducedText ==
    pc = "converted" => Canonical(encoding) = Canonical(content.by)

----------------------------------------------------------------------------
(* Field values.  A value is [type, v]: a string with its characters, null, *)
(* a number with the characters of its decimal form, a date with year,      *)
(* month and day.  Control characters are written by name: "SOH" is \x01,   *)
(* "DEL" is \x7F.                                                           *)

Str(s) == [type |-> "string", v |-> s]
Null == [type |-> "null", v |-> <<>>]
Num(s) == [type |-> "number", v |-> s]
DateOf(y, m, d) == [type |-> "date", v |-> y \o <<"-">> \o m \o <<"-">> \o d]
TypeError == [type |-> "TypeError", v |-> <<>>]

Digits == {"0", "1", "2", "3", "4", "5", "6", "7", "8", "9"}

\* /[\x00-\x1F\x7F]/ and /[\x00-\x09\x0B-\x1F\x7F]/ (all but the line feed)
ControlChars == {"NUL", "SOH", "\t", "\n", "\r", "DEL"}
ControlCharsButLF == ControlChars \ {"\n"}

\* what String.prototype.trim removes
WhitespaceChars == {" ", "\t", "\n", "\r"}

\* value.replace(/[...]/g, '')
removeChars(s, chars) == SelectSeq(s, LAMBDA c : c \notin chars)

RECURSIVE trimStart(_)
trimStart(s) ==
    IF s # <<>> /\ Head(s) \in WhitespaceChars THEN trimStart(Tail(s)) ELSE s

RECURSIVE trimEnd(_)
trimEnd(s) ==
    IF s # <<>> /\ s[Len(s)] \in WhitespaceChars
    THEN trimEnd(SubSeq(s, 1, Len(s) - 1)) ELSE s

trim(s) == trimEnd(trimStart(s))

allDigits(s) == \A i \in 1..Len(s) : s[i] \in Digits

\* /^-?\d*\.?\d+$/
isNumeric(s) ==
    LET u == IF s # <<>> /\ Head(s) = "-" THEN Tail(s) ELSE s
    IN  \/ u # <<>> /\ allDigits(u)
        \/ \E i \in 1..Len(u) :
              /\ u[i] = "."
              /\ allDigits(SubSeq(u, 1, i - 1))
              /\ i < Len(u) /\ allDigits(SubSeq(u, i + 1, Len(u)))

RECURSIVE dropLeadingZeros(_)
dropLeadingZeros(s) ==
    IF Len(s) > 1 /\ Head(s) = "0" THEN dropLeadingZeros(Tail(s)) ELSE s

RECURSIVE dropTrailingZeros(_)
dropTrailingZeros(s) ==
    IF s # <<>> /\ s[Len(s)] = "0"
    THEN dropTrailingZeros(SubSeq(s, 1, Len(s) - 1)) ELSE s

\* Number(value) for a value that matches isNumeric, as the characters of
\* the number: no leading zeros, no trailing zeros of the fraction.
toNumber(s) ==
    LET neg == s # <<>> /\ Head(s) = "-"
        u == IF neg THEN Tail(s) ELSE s
        dot == IF "." \in Range(u)
               THEN CHOOSE i \in 1..Len(u) : u[i] = "." ELSE Len(u) + 1
        int == dropLeadingZeros(IF dot = 1 THEN <<"0">> ELSE SubSeq(u, 1, dot - 1))
        frac == dropTrailingZeros(SubSeq(u, dot + 1, Len(u)))
    IN  Num((IF neg THEN <<"-">> ELSE <<>>) \o int
               \o (IF frac = <<>> THEN <<>> ELSE <<".">> \o frac))

DigitValue(c) ==
    CASE c = "0" -> 0 [] c = "1" -> 1 [] c = "2" -> 2 [] c = "3" -> 3
      [] c = "4" -> 4 [] c = "5" -> 5 [] c = "6" -> 6 [] c = "7" -> 7
      [] c = "8" -> 8 [] c = "9" -> 9

RECURSIVE toNat(_)
toNat(s) ==
    IF s = <<>> THEN 0
    ELSE 10 * toNat(SubSeq(s, 1, Len(s) - 1)) + DigitValue(s[Len(s)])

\* The ways to cut s into digits, separator, digits, separator, digits, with
\* the separators in sep1 and sep2 and a last character in last (or none).
ThreeParts(s, sep1, sep2, last) ==
    LET end == IF last = {} THEN Len(s) ELSE Len(s) - 1
    IN  {<<SubSeq(s, 1, i - 1), SubSeq(s, i + 1, j - 1), SubSeq(s, j + 1, end)>> :
            <<i, j>> \in {p \in (1..Len(s)) \X (1..Len(s)) :
                            /\ p[1] < p[2] /\ p[2] < end + 1
                            /\ s[p[1]] \in sep1 /\ s[p[2]] \in sep2
                            /\ (last = {} \/ s[Len(s)] \in last)
                            /\ allDigits(SubSeq(s, 1, p[1] - 1))
                            /\ allDigits(SubSeq(s, p[1] + 1, p[2] - 1))
                            /\ allDigits(SubSeq(s, p[2] + 1, end))}}

lengthsIn(parts, l1, l2, l3) ==
    Len(parts[1]) \in l1 /\ Len(parts[2]) \in l2 /\ Len(parts[3]) \in l3

\* dateFormats[0]: /^\d{4}[-/]\d{1,2}[-/]\d{1,2}$/
yearFirst(s) ==
    {p \in ThreeParts(s, {"-", "/"}, {"-", "/"}, {}) : lengthsIn(p, {4}, 1..2, 1..2)}

\* dateFormats[1]: /^\d{1,2}[-/]\d{1,2}[-/]\d{4}$/
yearLast(s) ==
    {p \in ThreeParts(s, {"-", "/"}, {"-", "/"}, {}) : lengthsIn(p, 1..2, 1..2, {4})}

\* dateFormats[2]: /^\d{4}年\d{1,2}月\d{1,2}日$/, the three CJK characters
\* written "nen", "gatsu", "nichi"
yearLocalized(s) ==
    {p \in ThreeParts(s, {"nen"}, {"gatsu"}, {"nichi"}) : lengthsIn(p, {4}, 1..2, 1..2)}

matchesDateFormat(s) == yearFirst(s) \cup yearLast(s) \cup yearLocalized(s) # {}

\* new Date(value): year-first and month/day/year strings parse when month
\* and day are in range; the localized form is an Invalid Date.
parseDate(s) ==
    LET ymd == IF yearFirst(s) # {}
               THEN LET p == CHOOSE q \in yearFirst(s) : TRUE
                    IN  <<p[1], p[2], p[3]>>
               ELSE IF yearLast(s) # {}
               THEN LET p == CHOOSE q \in yearLast(s) : TRUE
                    IN  <<p[3], p[1], p[2]>>
               ELSE <<<<>>, <<>>, <<>>>>
    IN  IF toNat(ymd[2]) \in 1..12 /\ toNat(ymd[3]) \in 1..31
        THEN DateOf(ymd[1], dropLeadingZeros(ymd[2]), dropLeadingZeros(ymd[3]))
        ELSE [type |-> "InvalidDate", v |-> <<>>]

\* mapValues of the csv-parser options (src/2xlsx.js), on one cell.
mapValues(value) ==
    IF value.type # "string" THEN TypeError
    ELSE IF value.v = <<>> THEN Null
    ELSE LET cleaned == trim(removeChars(value.v, ControlChars))
         IN  IF isNumeric(cleaned) THEN toNumber(cleaned)
             ELSE IF matchesDateFormat(cleaned)
                     /\ parseDate(cleaned).type = "date"
             THEN parseDate(cleaned)
             ELSE Str(cleaned)

\* The field cleaning of on_record (src/2xlsx2.js, both scripts).
cleanField(value) ==
    IF value.type = "string"
    THEN Str(trim(removeChars(value.v, ControlCharsButLF)))
    ELSE value

----------------------------------------------------------------------------
(* A field value through a normaliser, and through it again *)

\* Bound of the field values.
MaxFieldLen == 3

FieldChars == {" ", "SOH", "\n", "0", "7", ".", "-", "a"}

SampleValues ==
    { <<"2", "0", "2", "4", "-", "0", "1", "-", "0", "5">>,
      <<"1", "/", "5", "/", "2", "0", "2", "4">>,
      <<"2", "0", "2", "4", "-", "1", "3", "-", "4", "5">>,
      <<"2", "0", "2", "4", "nen", "1", "gatsu", "5", "nichi">>,
      <<" ", "2", "0", "2", "4", "/", "1", "/", "5", "\t">> }

TextValues == Seqs(FieldChars, MaxFieldLen) \cup SampleValues

Pending == [type |-> "pending", v |-> <<>>]

normalize(which, value) ==
    IF which = "mapValues" THEN mapValues(value) ELSE cleanField(value)

InitField ==
    /\ normalizer \in {"mapValues", "on_record"}
    /\ fieldValue \in {Str(t) : t \in TextValues}
    /\ once = Pending
    /\ twice = Pending
    /\ IdleEnc
    /\ IdleRec
    /\ IdleBatch

\* the parser calls the normaliser on the cell
NormalizeField ==
    /\ normalizer # "none"
    /\ once = Pending
    /\ once' = normalize(normalizer, fieldValue)
    /\ UNCHANGED <<normalizer, fieldValue, twice, encVars, recVars, batchVars>>

\* the normalised value is normalised again
NormalizeAgain ==
    /\ once # Pending
    /\ twice = Pending
    /\ twice' = normalize(normalizer, once)
    /\ UNCHANGED <<normalizer, fieldValue, once, encVars, recVars, batchVars>>

NextField == NormalizeField \/ NormalizeAgain

SpecField == InitField /\ [][NextField]_vars

\* C6: normalising a normalised textual value changes nothing: for every
\* field value, the normaliser applied to its own (textual) result gives
\* that result again.
C6_NormalizeIdempotent ==
    twice # Pending /\ once.type = "string" => twice = once

----------------------------------------------------------------------------
(* The parsed rows of one file through the converters:                     *)
(*   "xlsx"      convertCsvToExcel of src/2xlsx.js (csv-parser, mapValues)  *)
(*   "filtered"  parseCSVContent + convertCsvToExcel of src/2xlsx2.js       *)
(*   "json"      convertCSVToJSON of src/2xlsx2.js                          *)
(* A kept record carries the index of the row it was made from.            *)

\* Bound of the rows of a file.
MaxRows == 2

PA100 == <<"P", "A", "1", "0", "0">>
PA999 == <<"P", "A", "9", "9", "9">>

\* config.allowedPatientIds
allowedPatientIds == {PA100}

FieldNames == {"PATIENT_ID", "NAME"}

\* The cells a parser can produce.  The filtered converter parses a content
\* from which readAndDecodeCSV has removed the control characters already.
CellValues(v) ==
    {<<>>, <<" ">>, PA100, PA999}
        \cup (IF v = "filtered" THEN {<<" ">> \o PA100} ELSE {<<"\t">> \o PA100})

\* A row: a value for every column, or (a short row) for NAME only.
RowsOf(v) ==
    UNION {[d -> {Str(c) : c \in CellValues(v)}] : d \in {FieldNames, {"NAME"}}}

Kept(i, fields) == [row |-> i, fields |-> fields]

\* record.PATIENT_ID && config.allowedPatientIds.includes(record.PATIENT_ID),
\* with the allow-list check left out
hasPatientId(fields) ==
    /\ "PATIENT_ID" \in DOMAIN fields
    /\ fields["PATIENT_ID"] \notin {Null, Str(<<>>)}

\* record.PATIENT_ID && config.allowedPatientIds.includes(record.PATIENT_ID)
passesFilter(fields) ==
    /\ "PATIENT_ID" \in DOMAIN fields
    /\ fields["PATIENT_ID"] \notin {Null, Str(<<>>)}
    /\ fields["PATIENT_ID"] \in {Str(id) : id \in allowedPatientIds}

\* Object.keys(record).forEach(key => ... replace ... trim())
cleanRecord(row) == [k \in DOMAIN row |-> cleanField(row[k])]

\* What the per-row callback adds to the records: the row with mapValues on
\* every cell; the cleaned row if it passes the filter; the cleaned row.
perRow(v, i, row) ==
    CASE v = "xlsx" -> <<Kept(i, [k \in DOMAIN row |-> mapValues(row[k])])>>
      [] v = "filtered" ->
            IF passesFilter(cleanRecord(row)) THEN <<Kept(i, cleanRecord(row))>>
            ELSE <<>>
      [] v = "json" -> <<Kept(i, cleanRecord(row))>>

\* Object.values(record).some(value => value !== null && value !== '')
hasData(rec) ==
    \E k \in DOMAIN rec.fields : rec.fields[k] \notin {Null, Str(<<>>)}

validRecords(recs) == SelectSeq(recs, hasData)

InitRec ==
    /\ variant \in {"xlsx", "filtered", "json"}
    /\ rows \in Seqs(RowsOf(variant), MaxRows)
    /\ idx = 1
    /\ records = <<>>
    /\ sink = <<>>
    /\ stage = "parsing"
    /\ IdleEnc
    /\ IdleField
    /\ IdleBatch

\* The parser's callback on the next row (mapValues and 'data', on_record).
OnRow ==
    /\ stage = "parsing"
    /\ idx <= Len(rows)
    /\ records' = records \o perRow(variant, idx, rows[idx])
    /\ idx' = idx + 1
    /\ UNCHANGED <<variant, rows, sink, stage, encVars, fieldVars, batchVars>>

\* 2xlsx.js: on 'end', json_to_sheet(results) takes every record.
WriteXlsx ==
    /\ stage = "parsing" /\ idx > Len(rows) /\ variant = "xlsx"
    /\ sink' = records
    /\ stage' = "written"
    /\ UNCHANGED <<variant, rows, idx, records, encVars, fieldVars, batchVars>>

\* 2xlsx2.js convertCsvToExcel: the non-empty records, or a throw when
\* there is none.
WriteFiltered ==
    /\ stage = "parsing" /\ idx > Len(rows) /\ variant = "filtered"
    /\ IF validRecords(records) = <<>>
       THEN sink' = sink /\ stage' = "failed"
       ELSE sink' = validRecords(records) /\ stage' = "written"
    /\ UNCHANGED <<variant, rows, idx, records, encVars, fieldVars, batchVars>>

\* convertCSVToJSON: the non-empty records, none included.
WriteJson ==
    /\ stage = "parsing" /\ idx > Len(rows) /\ variant = "json"
    /\ sink' = validRecords(records)
    /\ stage' = "written"
    /\ UNCHANGED <<variant, rows, idx, records, encVars, fieldVars, batchVars>>

NextRec == OnRow \/ WriteXlsx \/ WriteFiltered \/ WriteJson

SpecRec == InitRec /\ [][NextRec]_vars

----------------------------------------------------------------------------
(* Claims about the records *)

\* C5: in every variant, a field whose input value is the empty string
\* reaches the sink as null, never as the empty string.
C5_EmptyBecomesNull ==
    stage = "written" =>
        \A i \in 1..Len(sink) : \A k \in DOMAIN sink[i].fields :
            rows[sink[i].row][k] = Str(<<>>) => sink[i].fields[k] = Null

\* The cleaning of a cell the claims speak of: control characters removed,
\* surrounding white space trimmed.
C7_Cleaned(value) == Str(trim(removeChars(value.v, ControlCharsButLF)))

C7_Admitted(row) ==
    "PATIENT_ID" \in DOMAIN row /\ C7_Cleaned(row["PATIENT_ID"]) = Str(PA100)

\* C7: with the allow-list {"PA100"}, the filtered converter hands to the
\* sink exactly the rows whose cleaned PATIENT_ID is PA100 (a row with
\* PA999, another value or no PATIENT_ID is dropped), every field equal to
\* the cleaned input value, in input order.
C7_FilterKeepsAllowed ==
    variant = "filtered" /\ stage \in {"written", "failed"} =>
        /\ {sink[i].row : i \in 1..Len(sink)}
              = {j \in 1..Len(rows) : C7_Admitted(rows[j])}
        /\ \A i \in 1..Len(sink) :
              /\ DOMAIN sink[i].fields = DOMAIN rows[sink[i].row]
              /\ \A k \in DOMAIN sink[i].fields :
                    sink[i].fields[k] = C7_Cleaned(rows[sink[i].row][k])
        /\ \A i, j \in 1..Len(sink) : i < j => sink[i].row < sink[j].row

\* C7 witness: a PA999 row was dropped and a later PA100 row, whose other
\* field needed cleaning, was retained.
C7_Witness ==
    /\ variant = "filtered" /\ stage = "written"
    /\ Len(rows) = 2 /\ Len(sink) = 1
    /\ DOMAIN rows[1] = FieldNames /\ DOMAIN rows[2] = FieldNames
    /\ rows[1]["PATIENT_ID"] = Str(PA999)
    /\ sink[1].row = 2
    /\ rows[2]["PATIENT_ID"] = Str(<<" ">> \o PA100)
    /\ rows[2]["NAME"] = Str(<<" ">>)

\* C8: in every variant, no record whose fields are all null or empty after
\* cleaning is handed to the sink.
C8_NoBlankRecordInSink ==
    stage = "written" =>
        \A i \in 1..Len(sink) :
            \E k \in DOMAIN sink[i].fields :
                sink[i].fields[k] \notin {Null, Str(<<>>)}

----------------------------------------------------------------------------
(* The batch drivers: processDirectory (src/2xlsx.js) converts the files    *)
(* one after the other, convertAllCSVFiles (src/2xlsx2.js) starts a         *)
(* conversion per file and awaits them all.                                 *)

\* Bound of the directory.
MaxFiles == 2

csvExt == <<".", "c", "s", "v">>
xlsxExt == <<".", "x", "l", "s", "x">>
jsonExt == <<".", "j", "s", "o", "n">>

FileNames ==
    { <<"y", ".", "c", "s", "v">>,
      <<"y", ".", "C", "S", "V">>,
      <<"y", ".", "C", "S", "V", ".", "c", "s", "v">>,
      <<"y", ".", "t", "x", "t">> }

\* A directory listing: distinct names, in the order readdir gives them.
Listings ==
    {l \in Seqs(FileNames, MaxFiles) :
        \A i, j \in 1..Len(l) : i # j => l[i] # l[j]}

Outcomes ==
    {"decodeError", "emptyContent", "parseError", "noRecords", "writeError",
     "success"}

\* file => file.toLowerCase().endsWith('.csv')
isCsvFile(file) == endsWith(toLowerCase(file), csvExt)

\* path.basename(file, ext): the extension is removed when the name ends
\* with it, compared as written, unless it is the whole name.
basename(file, ext) ==
    IF endsWith(file, ext) /\ file # ext
    THEN SubSeq(file, 1, Len(file) - Len(ext))
    ELSE file

\* `${path.basename(csvFile, '.csv')}.xlsx` and `${fileName}.json`; the
\* output directory is the same for every file.
xlsxPath(file) == basename(file, csvExt) \o xlsxExt
jsonPath(file) == basename(file, csvExt) \o jsonExt

\* convertCsvToExcel with the write error leaving its try block.
convertCsvToExcelRethrows(o) ==
    IF o \in {"decodeError", "emptyContent", "parseError"} THEN "false"
    ELSE IF o = "writeError" THEN "throw"
    ELSE "true"

\* convertCsvToExcel (src/2xlsx.js): every throw of the body is caught and
\* turned into false; no rows is an empty sheet and true.
convertCsvToExcel(o) ==
    IF o \in {"decodeError", "emptyContent", "parseError", "writeError"}
    THEN "false"
    ELSE "true"

\* whether convertCsvToExcel gets as far as XLSX.writeFile
reachesWriteFile(o) == o \in {"noRecords", "writeError", "success"}

\* convertCSVToJSON up to its writeFile: a decode or parse error ends it
\* with false; an empty content parses to no records.
readAndParse(o) ==
    IF o \in {"decodeError", "parseError"} THEN "false" ELSE "writing"

\* convertCSVToJSON's await fs.writeFile(...) and what follows
writeJson(o) == IF o = "writeError" THEN "false" ELSE "true"

InitBatch ==
    /\ mode \in {"sequential", "concurrent"}
    /\ listing \in Listings
    /\ outcome \in [{f \in Range(listing) : isCsvFile(f)} -> Outcomes]
    /\ csvFiles = <<>>
    /\ bpc = "start"
    /\ loopIdx = 1
    /\ tally = NoTally
    /\ tasks = <<>>
    /\ attempts = [f \in Range(listing) |-> 0]
    /\ writes = <<>>
    /\ errorLog = <<>>
    /\ IdleEnc
    /\ IdleField
    /\ IdleRec

\* processDirectory: readdir, the filter, the results object.
ScanSequential ==
    /\ mode = "sequential" /\ bpc = "start"
    /\ csvFiles' = SelectSeq(listing, isCsvFile)
    /\ IF csvFiles' = <<>>
       THEN bpc' = "done" /\ tally' = tally
       ELSE /\ bpc' = "loop"
            /\ tally' = [success |-> 0, failed |-> 0, total |-> Len(csvFiles'),
                         failedFiles |-> <<>>]
    /\ UNCHANGED <<mode, listing, outcome, loopIdx, tasks, attempts, writes,
                   errorLog, encVars, fieldVars, recVars>>

\* One turn of the for loop: await convertCsvToExcel, then count.  A throw
\* out of the await would reach the catch of processDirectory.
ConvertNext ==
    /\ bpc = "loop" /\ loopIdx <= Len(csvFiles)
    /\ LET csvFile == csvFiles[loopIdx]
           success == convertCsvToExcel(outcome[csvFile])
       IN  /\ attempts' = [attempts EXCEPT ![csvFile] = @ + 1]
           /\ writes' = IF reachesWriteFile(outcome[csvFile])
                        THEN Append(writes, [file |-> csvFile,
                                             path |-> xlsxPath(csvFile)])
                        ELSE writes
           /\ errorLog' = IF success = "false" THEN Append(errorLog, csvFile)
                          ELSE errorLog
           /\ IF success = "throw"
              THEN bpc' = "aborted" /\ UNCHANGED <<tally, loopIdx>>
              ELSE /\ bpc' = bpc
                   /\ loopIdx' = loopIdx + 1
                   /\ tally' =
                        IF success = "true"
                        THEN [tally EXCEPT !.success = @ + 1]
                        ELSE [tally EXCEPT !.failed = @ + 1,
                                           !.failedFiles = Append(@, csvFile)]
    /\ UNCHANGED <<mode, listing, outcome, csvFiles, tasks, encVars, fieldVars,
                   recVars>>

\* After the loop: the statistics are printed.
Summarize ==
    /\ bpc = "loop" /\ loopIdx > Len(csvFiles)
    /\ bpc' = "done"
    /\ UNCHANGED <<mode, listing, outcome, csvFiles, loopIdx, tally, tasks,
                   attempts, writes, errorLog, encVars, fieldVars, recVars>>

\* convertAllCSVFiles: readdir, the filter, and csvFiles.map(...), which
\* starts convertCSVToJSON for every file.
ScanConcurrent ==
    /\ mode = "concurrent" /\ bpc = "start"
    /\ csvFiles' = SelectSeq(listing, isCsvFile)
    /\ IF csvFiles' = <<>>
       THEN bpc' = "done" /\ tasks' = tasks /\ attempts' = attempts
       ELSE /\ bpc' = "fanout"
            /\ tasks' = [f \in Range(csvFiles') |-> "reading"]
            /\ attempts' = [f \in DOMAIN attempts |->
                               IF f \in Range(csvFiles') THEN attempts[f] + 1
                               ELSE attempts[f]]
    /\ UNCHANGED <<mode, listing, outcome, loopIdx, tally, writes, errorLog,
                   encVars, fieldVars, recVars>>

\* A task reads, decodes and parses its file.
TaskReads(f) ==
    /\ bpc = "fanout" /\ tasks[f] = "reading"
    /\ tasks' = [tasks EXCEPT ![f] = readAndParse(outcome[f])]
    /\ errorLog' = IF readAndParse(outcome[f]) = "false"
                   THEN Append(errorLog, f) ELSE errorLog
    /\ UNCHANGED <<mode, listing, outcome, csvFiles, bpc, loopIdx, tally,
                   attempts, writes, encVars, fieldVars, recVars>>

\* A task writes its output file and settles.
TaskWrites(f) ==
    /\ bpc = "fanout" /\ tasks[f] = "writing"
    /\ writes' = Append(writes, [file |-> f, path |-> jsonPath(f)])
    /\ tasks' = [tasks EXCEPT ![f] = writeJson(outcome[f])]
    /\ errorLog' = IF writeJson(outcome[f]) = "false"
                   THEN Append(errorLog, f) ELSE errorLog
    /\ UNCHANGED <<mode, listing, outcome, csvFiles, bpc, loopIdx, tally,
                   attempts, encVars, fieldVars, recVars>>

\* Promise.all settles: the counts of the summary, or (a rejected task)
\* the catch of convertAllCSVFiles and process.exit(1).
AllSettled ==
    /\ bpc = "fanout"
    /\ \A f \in DOMAIN tasks : tasks[f] \in {"true", "false", "throw"}
    /\ IF \E f \in DOMAIN tasks : tasks[f] = "throw"
       THEN bpc' = "aborted" /\ tally' = tally
       ELSE LET successCount ==
                    Cardinality({i \in 1..Len(csvFiles) : tasks[csvFiles[i]] = "true"})
            IN  /\ bpc' = "done"
                /\ tally' = [success |-> successCount,
                             failed |-> Len(csvFiles) - successCount,
                             total |-> Len(csvFiles),
                             failedFiles |-> <<>>]
    /\ UNCHANGED <<mode, listing, outcome, csvFiles, loopIdx, tasks, attempts,
                   writes, errorLog, encVars, fieldVars, recVars>>

NextBatch ==
    \/ ScanSequential
    \/ ConvertNext
    \/ Summarize
    \/ ScanConcurrent
    \/ \E f \in FileNames : f \in DOMAIN tasks /\ TaskReads(f)
    \/ \E f \in FileNames : f \in DOMAIN tasks /\ TaskWrites(f)
    \/ AllSettled

SpecBatch == InitBatch /\ [][NextBatch]_vars

----------------------------------------------------------------------------
(* Claims about the batch *)

\* The conversion of a file fails when its outcome is an error of the
\* converter of the mode.
C9_Failed(f) ==
    outcome[f] \in
        (IF mode = "sequential"
         THEN {"decodeError", "emptyContent", "parseError", "writeError"}
         ELSE {"decodeError", "parseError", "writeError"})

\* The failed filenames: results.failedFiles of processDirectory, the
\* per-file error lines of convertAllCSVFiles.
C9_FailedList == IF mode = "sequential" THEN tally.failedFiles ELSE errorLog

C9_CsvFiles == {f \in Range(listing) : endsWith(toLowerCase(f), csvExt)}

C10_DistinctOutputs ==
    \A i, j \in 1..Len(writes) :
        writes[i].file # writes[j].file => writes[i].path # writes[j].path

====
